---- MODULE Spec2Model ----
(***************************************************************************)
(* Model of EasyFEA/fem/_gauss.py: the Gauss class (integration points and *)
(* weights per element type and matrix type), its per-family generators    *)
(* and its selector _Gauss_factory.                                        *)
(*                                                                         *)
(* Floating-point values are modelled in decimal fixed point with 16       *)
(* fractional digits: a number is <<hi, lo>> and stands for                *)
(* (hi * 10^8 + lo) * 10^-16 with 0 <= lo < 10^8, so that every literal of *)
(* the source (at most 16 fractional digits) is represented exactly and    *)
(* every limb fits a 32-bit integer.  Rounding of IEEE doubles (relative   *)
(* 2^-53) is below this resolution.                                        *)
(***************************************************************************)
EXTENDS Integers, Sequences, FiniteSets, TLC

VARIABLES objs, log, gen, read, writes

vars == <<objs, log, gen, read, writes>>

(***************************************************************************)
(* Fixed-point numbers                                                     *)
(***************************************************************************)
Base == 10 ^ 8

Limb == 10 ^ 4

Norm(h, l) == <<h + (l \div Base), l % Base>>

D(h, l) == <<h, l>>

Num(n) == <<n * Base, 0>>

Zero == Num(0)

Add(a, b) == Norm(a[1] + b[1], a[2] + b[2])

Neg(a) == Norm(0 - a[1], 0 - a[2])

Sub(a, b) == Add(a, Neg(b))

Scale(k, a) == Norm(k * a[1], k * a[2])

Leq(a, b) == a[1] < b[1] \/ (a[1] = b[1] /\ a[2] <= b[2])

IsNeg(a) == a[1] < 0

Abs(a) == IF IsNeg(a) THEN Neg(a) ELSE a

RECURSIVE LongDiv(_, _, _, _)
\* k more decimal digits of r/q (0 <= r < q): <<digits as a number, remainder>>
LongDiv(r, q, k, acc) ==
    IF k = 0 THEN <<acc, r>>
    ELSE LongDiv((r * 10) % q, q, k - 1, acc * 10 + ((r * 10) \div q))

\* the number with integer part n, first 8 digits h[1], next 8 digits l[1],
\* rounded up when the remainder l[2] is at least q/2
Round(n, h, l, q) == Norm(n * Base + h[1], l[1] + (IF 2 * l[2] >= q THEN 1 ELSE 0))

QuotLow(n, h, q) == Round(n, h, LongDiv(h[2], q, 8, 0), q)

\* p/q for integers 0 <= p, 0 < q, rounded to the nearest 10^-16
Quot(p, q) == QuotLow(p \div q, LongDiv(p % q, q, 8, 0), q)

Rat(p, q) == IF p < 0 THEN Neg(Quot(0 - p, q)) ELSE Quot(p, q)

\* limbs of a non-negative number in base 10^4: integer part, then 4 limbs
Limbs(a) ==
    <<a[1] \div Base, (a[1] % Base) \div Limb, a[1] % Limb,
      a[2] \div Limb, a[2] % Limb>>

\* the term x_i * y_(k-i) of coefficient k, when both limbs exist
Term(x, y, i, k) == IF k - i \in 0..4 THEN x[i + 1] * y[k - i + 1] ELSE 0

\* coefficient k (0..8) of the product of two limb sequences
Coef(x, y, k) ==
    Term(x, y, 0, k) + Term(x, y, 1, k) + Term(x, y, 2, k) + Term(x, y, 3, k)
        + Term(x, y, 4, k)

RECURSIVE MulStep(_, _, _, _, _)
\* the limbs of the product from coefficient k upwards, c the carry into k:
\* <<integer part, 4 limbs>>, the limbs below 10^-16 dropped
MulFrom(x, y, k, c, ds) ==
    IF k = 0 THEN <<Coef(x, y, 0) + c>> \o ds
    ELSE MulStep(x, y, k, Coef(x, y, k) + c, ds)

MulStep(x, y, k, t, ds) ==
    MulFrom(x, y, k - 1, t \div Limb,
            IF k <= 4 THEN <<t % Limb>> \o ds ELSE ds)

FromLimbs(d) == <<d[1] * Base + d[2] * Limb + d[3], d[4] * Limb + d[5]>>

\* product of two non-negative numbers, truncated to 10^-16
MulAbs(a, b) == FromLimbs(MulFrom(Limbs(a), Limbs(b), 8, 0, <<>>))

WithSign(a, b, m) == IF IsNeg(a) = IsNeg(b) THEN m ELSE Neg(m)

Mul(a, b) == WithSign(a, b, MulAbs(Abs(a), Abs(b)))

RECURSIVE Sum(_)
Sum(s) == IF s = <<>> THEN Zero ELSE Add(s[1], Sum(Tail(s)))

(***************************************************************************)
(* Python values returned by the generators: a float or a list of floats   *)
(***************************************************************************)
\* a Python float (or a 0-d value)
S(x) == [scalar |-> TRUE, v |-> <<x>>]

\* a Python list / 1-D array of floats
L(s) == [scalar |-> FALSE, v |-> s]

\* [x] * n
Rep(x, n) == [i \in 1..n |-> x]

\* s * n for a list s
RepSeq(s, n) == [i \in 1..(n * Len(s)) |-> s[((i - 1) % Len(s)) + 1]]

\* what a call returns: its tuple, or the exception it raises
Ret(comps, weights) ==
    [ok |-> TRUE, err |-> "none", comps |-> comps, weights |-> weights]

Raise(kind) ==
    [ok |-> FALSE, err |-> kind, comps |-> <<>>, weights |-> L(<<>>)]

(***************************************************************************)
(* Per-family generators                                                   *)
(***************************************************************************)
\* variant: the 1-point weight copied from the 3-point table
Triangle1_sixth == Ret(<<S(Rat(1, 3)), S(Rat(1, 3))>>, S(Rat(1, 6)))

Triangle1 == Ret(<<S(Rat(1, 3)), S(Rat(1, 3))>>, S(Rat(1, 2)))

Triangle3 ==
    Ret(<<L(<<Rat(1, 6), Rat(2, 3), Rat(1, 6)>>),
          L(<<Rat(1, 6), Rat(1, 6), Rat(2, 3)>>)>>,
        L(Rep(Rat(1, 6), 3)))

Triangle6 ==
    LET a == D(44594849, 9159650)      \* 0.445948490915965
        b == D(9157621, 35097710)      \* 0.091576213509771
        p1 == D(11169079, 48390500)    \* 0.11169079483905
        p2 == D(5497587, 18227661)     \* 0.0549758718227661
        a2 == Sub(Num(1), Scale(2, a))
        b2 == Sub(Num(1), Scale(2, b))
    IN  Ret(<<L(<<b, b2, b, a, a, a2>>),
              L(<<b, b, b2, a2, a, a>>)>>,
            L(<<p2, p2, p2, p1, p1, p1>>))

Triangle7 ==
    LET a == D(47014206, 41051150)     \* 0.470142064105115
        b == D(10128650, 73234560)     \* 0.101286507323456
        p1 == D(6619707, 63942530)     \* 0.066197076394253
        p2 == D(6296959, 2724130)      \* 0.062969590272413
        a2 == Sub(Num(1), Scale(2, a))
        b2 == Sub(Num(1), Scale(2, b))
    IN  Ret(<<L(<<Rat(1, 3), a, a2, a, b, b2, b>>),
              L(<<Rat(1, 3), a, a, a2, b, b, b2>>)>>,
            L(<<Rat(9, 80), p1, p1, p1, p2, p2, p2>>))

Triangle12 ==
    LET a == D(6308901, 44915020)      \* 0.063089014491502
        b == D(24928674, 51709100)     \* 0.249286745170910
        c == D(31035245, 10337850)     \* 0.310352451033785
        d == D(5314504, 98448160)      \* 0.053145049844816
        p1 == D(2542245, 31851030)     \* 0.025422453185103
        p2 == D(5839313, 78631890)     \* 0.058393137863189
        p3 == D(4142553, 78091870)     \* 0.041425537809187
        a2 == Sub(Num(1), Scale(2, a))
        b2 == Sub(Num(1), Scale(2, b))
        e == Sub(Sub(Num(1), c), d)
    IN  Ret(<<L(<<a, a2, a, b, b2, b, c, d, e, e, c, d>>),
              L(<<a, a, a2, b, b, b2, d, c, c, d, e, e>>)>>,
            L(<<p1, p1, p1, p2, p2, p2, p3, p3, p3, p3, p3, p3>>))

\* no branch binds ksis, etas, weights: the return statement raises
_Triangle(nPg) ==
    CASE nPg = 1 -> Triangle1
      [] nPg = 3 -> Triangle3
      [] nPg = 6 -> Triangle6
      [] nPg = 7 -> Triangle7
      [] nPg = 12 -> Triangle12
      [] OTHER -> Raise("UnboundLocalError")

Quadrangle4 ==
    LET a == D(57735026, 91896258)     \* 1/np.sqrt(3)
        m == Neg(a)
    IN  Ret(<<L(<<m, a, a, m>>), L(<<m, m, a, a>>)>>, L(Rep(Num(1), 4)))

\* variant: the corner and the mid-side weights exchanged
Quadrangle9_swapped ==
    LET a == D(77459666, 92414830)
        m == Neg(a)
        o == Num(0)
        w1 == Rat(25, 81)
        w2 == Rat(40, 81)
    IN  Ret(<<L(<<m, a, a, m, o, a, o, m, o>>),
              L(<<m, m, a, a, m, o, a, o, o>>)>>,
            L(<<w2, w2, w2, w2, w1, w1, w1, w1, Rat(64, 81)>>))

Quadrangle9 ==
    LET a == D(77459666, 92414830)     \* 0.774596669241483
        m == Neg(a)
        o == Num(0)
        w1 == Rat(25, 81)
        w2 == Rat(40, 81)
    IN  Ret(<<L(<<m, a, a, m, o, a, o, m, o>>),
              L(<<m, m, a, a, m, o, a, o, o>>)>>,
            L(<<w1, w1, w1, w1, w2, w2, w2, w2, Rat(64, 81)>>))

_Quadrangle(nPg) ==
    CASE nPg = 4 -> Quadrangle4
      [] nPg = 9 -> Quadrangle9
      [] OTHER -> Raise("UnboundLocalError")

Tetrahedron1 ==
    Ret(<<S(Rat(1, 4)), S(Rat(1, 4)), S(Rat(1, 4))>>, S(Rat(1, 6)))

Tetrahedron4 ==
    LET a == D(13819660, 11250105)     \* (5-np.sqrt(5))/20
        b == D(58541019, 66249685)     \* (5+3*np.sqrt(5))/20
    IN  Ret(<<L(<<a, a, a, b>>), L(<<a, a, b, a>>), L(<<a, b, a, a>>)>>,
            L(Rep(Rat(1, 24), 4)))

\* variant: the centroid listed last, the weights in the same order
Tetrahedron5_centroidLast ==
    LET a == Rat(1, 4)
        b == Rat(1, 6)
        c == Rat(1, 2)
        p == Rat(3, 40)
    IN  Ret(<<L(<<c, b, b, b, a>>), L(<<b, b, b, c, a>>),
              L(<<b, b, c, b, a>>)>>,
            L(<<Rat(-2, 15), p, p, p, p>>))

Tetrahedron5 ==
    LET a == Rat(1, 4)
        b == Rat(1, 6)
        c == Rat(1, 2)
        p == Rat(3, 40)
    IN  Ret(<<L(<<a, b, b, b, c>>), L(<<a, b, b, c, b>>),
              L(<<a, b, c, b, b>>)>>,
            L(<<Rat(-2, 15), p, p, p, p>>))

Tetrahedron15 ==
    LET a == Rat(1, 4)
        b1 == D(31979362, 78296299)    \* (7+np.sqrt(15))/34
        b2 == D(9197107, 80527230)     \* (7-np.sqrt(15))/34
        c1 == D(4061911, 65111102)     \* (13-3*np.sqrt(15))/34
        c2 == D(72408676, 58418310)    \* (13+3*np.sqrt(15))/34
        d == D(5635083, 26896291)      \* (5-np.sqrt(15))/20
        e == D(44364916, 73103708)     \* (5+np.sqrt(15))/20
        p1 == Rat(8, 405)
        p2 == D(1151136, 78710454)     \* (2665 - 14*np.sqrt(15))/226800
        p3 == D(1198951, 39631698)     \* (2665 + 14*np.sqrt(15))/226800
        p4 == Rat(5, 567)
    IN  Ret(<<L(<<a, b1, b1, b1, c1, b2, b2, b2, c2, d, d, e, d, e, e>>),
              L(<<a, b1, b1, c1, b1, b2, b2, c2, b2, d, e, d, e, d, e>>),
              L(<<a, b1, c1, b1, b1, b2, c2, b2, b2, e, d, d, e, e, d>>)>>,
            L(<<p1, p2, p2, p2, p2, p3, p3, p3, p3,
                p4, p4, p4, p4, p4, p4>>))

_Tetrahedron(nPg) ==
    CASE nPg = 1 -> Tetrahedron1
      [] nPg = 4 -> Tetrahedron4
      [] nPg = 5 -> Tetrahedron5
      [] nPg = 15 -> Tetrahedron15
      [] OTHER -> Raise("UnboundLocalError")

Hexahedron8 ==
    LET a == D(57735026, 91896258)     \* 1/np.sqrt(3)
        m == Neg(a)
    IN  Ret(<<L(<<m, m, m, m, a, a, a, a>>),
              L(<<m, m, a, a, m, m, a, a>>),
              L(<<m, a, m, a, m, a, m, a>>)>>,
            L(Rep(Num(1), 8)))

\* c1 = 5/9, c2 = 8/9 and their products c1**3, c2**3, c1**2*c2, c1*c2**2
c1 == Rat(5, 9)

c2 == Rat(8, 9)

c1c1 == Mul(c1, c1)

c2c2 == Mul(c2, c2)

c13 == Mul(c1c1, c1)

c23 == Mul(c2c2, c2)

c12 == Mul(c1c1, c2)

c22 == Mul(c1, c2c2)

Hexahedron27 ==
    LET a == D(77459666, 92414834)     \* np.sqrt(3/5)
        m == Neg(a)
        o == Num(0)
    IN  Ret(<<L(Rep(m, 9) \o Rep(o, 9) \o Rep(a, 9)),
              L(RepSeq(<<m, m, m, o, o, o, a, a, a>>, 3)),
              L(RepSeq(<<m, o, a>>, 9))>>,
            L(<<c13, c12, c13, c12, c22, c12, c13, c12, c13,
                c12, c22, c12, c22, c23, c22, c12, c22, c12,
                c13, c12, c13, c12, c22, c12, c13, c12, c13>>))

_Hexahedron(nPg) ==
    CASE nPg = 8 -> Hexahedron8
      [] nPg = 27 -> Hexahedron27
      [] OTHER -> Raise("UnboundLocalError")

\* variant: four points on the lower level and two on the upper one
Prism6_uneven ==
    LET a == D(57735026, 91896258)
        m == Neg(a)
        h == Rat(1, 2)
        o == Num(0)
    IN  [X |-> <<m, m, m, m, a, a>>,
         Y |-> <<h, o, h, h, o, h>>,
         Z |-> <<h, h, o, h, h, o>>,
         weights |-> Rep(Rat(1, 6), 6)]

\* the tabulated axes X, Y, Z and the weights of the 6-point table
Prism6 ==
    LET a == D(57735026, 91896258)     \* 1/np.sqrt(3)
        m == Neg(a)
        h == Rat(1, 2)
        o == Num(0)
    IN  [X |-> <<m, m, m, a, a, a>>,
         Y |-> <<h, o, h, h, o, h>>,
         Z |-> <<h, h, o, h, h, o>>,
         weights |-> Rep(Rat(1, 6), 6)]

\* variant: the sign of the first weight of the 8-point table dropped
Prism8_positive ==
    LET a == D(57735026, 91896260)
        m == Neg(a)
        t == Rat(1, 3)
        p == Rat(25, 96)
    IN  [X |-> <<m, m, m, m, a, a, a, a>>,
         Y |-> RepSeq(<<t, Rat(6, 10), Rat(2, 10), Rat(2, 10)>>, 2),
         Z |-> RepSeq(<<t, Rat(2, 10), Rat(6, 10), Rat(2, 10)>>, 2),
         weights |-> RepSeq(<<Rat(27, 96), p, p, p>>, 2)]

Prism8 ==
    LET a == D(57735026, 91896260)     \* 0.577350269189626
        m == Neg(a)
        t == Rat(1, 3)
        p == Rat(25, 96)
    IN  [X |-> <<m, m, m, m, a, a, a, a>>,
         Y |-> RepSeq(<<t, Rat(6, 10), Rat(2, 10), Rat(2, 10)>>, 2),
         Z |-> RepSeq(<<t, Rat(2, 10), Rat(6, 10), Rat(2, 10)>>, 2),
         weights |-> RepSeq(<<Rat(-27, 96), p, p, p>>, 2)]

\* variant: the two in-plane axes exchanged (x = Z, y = Y)
PrismAxes_inPlaneSwapped(t) == Ret(<<L(t.Z), L(t.Y), L(t.X)>>, L(t.weights))

\* variant: the tabulated axes returned without the permutation
PrismAxes_unpermuted(t) == Ret(<<L(t.X), L(t.Y), L(t.Z)>>, L(t.weights))

\* x = np.array(Y); y = np.array(Z); z = np.array(X)
PrismAxes(t) == Ret(<<L(t.Y), L(t.Z), L(t.X)>>, L(t.weights))

\* variant: any other point count falls back to the 6-point table
Prism_fallback(nPg) ==
    CASE nPg = 8 -> PrismAxes(Prism8)
      [] OTHER -> PrismAxes(Prism6)

_Prism(nPg) ==
    CASE nPg = 6 -> PrismAxes(Prism6)
      [] nPg = 8 -> PrismAxes(Prism8)
      [] OTHER -> Raise("UnboundLocalError")

\* np.polynomial.legendre.leggauss(nPg) for the point counts the selector uses
leggauss(nPg) ==
    CASE nPg = 1 -> Ret(<<L(<<Num(0)>>)>>, L(<<Num(2)>>))
      [] nPg = 2 ->
            LET a == D(57735026, 91896257)
            IN  Ret(<<L(<<Neg(a), a>>)>>, L(<<Num(1), Num(1)>>))
      [] nPg = 3 ->
            LET a == D(77459666, 92414834)
                w1 == D(55555555, 55555556)
                w2 == D(88888888, 88888888)
            IN  Ret(<<L(<<Neg(a), Num(0), a>>)>>, L(<<w1, w2, w1>>))
      [] nPg = 4 ->
            LET a == D(86113631, 15940526)
                b == D(33998104, 35848563)
                w1 == D(34785484, 51374538)
                w2 == D(65214515, 48625461)
            IN  Ret(<<L(<<Neg(a), Neg(b), b, a>>)>>, L(<<w1, w2, w2, w1>>))
      [] nPg = 6 ->
            LET a == D(93246951, 42031521)
                b == D(66120938, 64662645)
                c == D(23861918, 60831969)
                w1 == D(17132449, 23791704)
                w2 == D(36076157, 30481386)
                w3 == D(46791393, 45726910)
            IN  Ret(<<L(<<Neg(a), Neg(b), Neg(c), c, b, a>>)>>,
                    L(<<w1, w2, w3, w3, w2, w1>>))
      [] OTHER -> Raise("ValueError")

(***************************************************************************)
(* numpy arrays: a shape and the values in row-major order                 *)
(***************************************************************************)
RECURSIVE Flatten(_)
Flatten(comps) ==
    IF comps = <<>> THEN <<>> ELSE comps[1].v \o Flatten(Tail(comps))

RECURSIVE Prod(_)
Prod(shape) == IF shape = <<>> THEN 1 ELSE shape[1] * Prod(Tail(shape))

NoArray == [shape |-> <<0>>, data |-> <<>>]

\* np.asarray of a float or of a list of floats
asarray0(w) ==
    IF w.scalar THEN [shape |-> <<>>, data |-> w.v]
    ELSE [shape |-> <<Len(w.v)>>, data |-> w.v]

\* np.asarray([c1, ..., ck]) of k floats or of k lists of equal length
asarray(comps) ==
    IF \A i \in 1..Len(comps) : comps[i].scalar
    THEN [shape |-> <<Len(comps)>>, data |-> Flatten(comps)]
    ELSE [shape |-> <<Len(comps), Len(comps[1].v)>>, data |-> Flatten(comps)]

\* ndarray.T: reverses the axes (a 1-D array is unchanged)
T(arr) ==
    IF Len(arr.shape) = 2
    THEN LET k == arr.shape[1]
             n == arr.shape[2]
         IN  [shape |-> <<n, k>>,
              data |-> [p \in 1..(k * n) |->
                          arr.data[((p - 1) % k) * n + ((p - 1) \div k) + 1]]]
    ELSE arr

\* ndarray.reshape(shape): raises ValueError when the sizes differ
reshape(arr, shape) ==
    [ok |-> Prod(shape) = Len(arr.data),
     arr |-> [shape |-> shape, data |-> arr.data]]

\* ndarray.size
size(arr) == Len(arr.data)

\* number of rows of a 2-D array, and its i-th row
Rows(arr) == arr.shape[1]

Row(arr, i) ==
    [j \in 1..arr.shape[2] |-> arr.data[(i - 1) * arr.shape[2] + j]]

(***************************************************************************)
(* The selector                                                            *)
(***************************************************************************)
\* MatrixType.Get_types()
MatrixTypes == {"rigi", "mass", "beam"}

SegTypes == {"SEG2", "SEG3", "SEG4"}

TriTypes == {"TRI3", "TRI6", "TRI10"}

QuadTypes == {"QUAD4", "QUAD8", "QUAD9"}

TetraTypes == {"TETRA4", "TETRA10"}

HexaTypes == {"HEXA8", "HEXA20"}

PrismTypes == {"PRISM6", "PRISM15"}

\* the element types with a branch in the selector
HandledTypes ==
    SegTypes \cup TriTypes \cup QuadTypes \cup TetraTypes \cup HexaTypes
        \cup PrismTypes

\* the dim assigned in each branch
Dim(elemType) ==
    IF elemType \in SegTypes THEN 1
    ELSE IF elemType \in TriTypes \cup QuadTypes THEN 2
    ELSE 3

\* marks a local variable that no branch has bound
Unbound == 0 - 1

\* variant: PRISM15 takes the 8-point table for mass
PointCount_prism8(elemType, matrixType) ==
    CASE elemType = "SEG2" ->
            IF matrixType = "rigi" THEN 1
            ELSE IF matrixType \in {"mass", "beam"} THEN 2 ELSE Unbound
      [] elemType = "SEG3" ->
            IF matrixType = "rigi" THEN 1
            ELSE IF matrixType \in {"mass"} THEN 3
            ELSE IF matrixType = "beam" THEN 4 ELSE Unbound
      [] elemType = "SEG4" ->
            IF matrixType = "rigi" THEN 2
            ELSE IF matrixType = "mass" THEN 4
            ELSE IF matrixType = "beam" THEN 6 ELSE Unbound
      [] elemType = "TRI3" ->
            IF matrixType = "rigi" THEN 1
            ELSE IF matrixType = "mass" THEN 3 ELSE Unbound
      [] elemType = "TRI6" ->
            IF matrixType = "rigi" THEN 3
            ELSE IF matrixType = "mass" THEN 6 ELSE Unbound
      [] elemType = "TRI10" -> 6
      [] elemType = "QUAD4" -> 4
      [] elemType = "QUAD8" ->
            IF matrixType = "rigi" THEN 4
            ELSE IF matrixType = "mass" THEN 9 ELSE Unbound
      [] elemType = "QUAD9" -> 9
      [] elemType = "TETRA4" ->
            IF matrixType = "rigi" THEN 1
            ELSE IF matrixType = "mass" THEN 4 ELSE Unbound
      [] elemType = "TETRA10" -> 4
      [] elemType = "HEXA8" ->
            IF matrixType \in {"rigi", "mass"} THEN 8 ELSE Unbound
      [] elemType = "HEXA20" ->
            IF matrixType \in {"rigi", "mass"} THEN 8 ELSE Unbound
      [] elemType = "PRISM6" ->
            IF matrixType \in {"rigi", "mass"} THEN 6 ELSE Unbound
      [] elemType = "PRISM15" ->
            IF matrixType = "rigi" THEN 6
            ELSE IF matrixType = "mass" THEN 8 ELSE Unbound
      [] OTHER -> Unbound

\* variant: HEXA20 takes the 27-point table (nPg = 27 of line 362)
PointCount_hexa27(elemType, matrixType) ==
    CASE elemType = "SEG2" ->
            IF matrixType = "rigi" THEN 1
            ELSE IF matrixType \in {"mass", "beam"} THEN 2 ELSE Unbound
      [] elemType = "SEG3" ->
            IF matrixType = "rigi" THEN 1
            ELSE IF matrixType \in {"mass"} THEN 3
            ELSE IF matrixType = "beam" THEN 4 ELSE Unbound
      [] elemType = "SEG4" ->
            IF matrixType = "rigi" THEN 2
            ELSE IF matrixType = "mass" THEN 4
            ELSE IF matrixType = "beam" THEN 6 ELSE Unbound
      [] elemType = "TRI3" ->
            IF matrixType = "rigi" THEN 1
            ELSE IF matrixType = "mass" THEN 3 ELSE Unbound
      [] elemType = "TRI6" ->
            IF matrixType = "rigi" THEN 3
            ELSE IF matrixType = "mass" THEN 6 ELSE Unbound
      [] elemType = "TRI10" -> 6
      [] elemType = "QUAD4" -> 4
      [] elemType = "QUAD8" ->
            IF matrixType = "rigi" THEN 4
            ELSE IF matrixType = "mass" THEN 9 ELSE Unbound
      [] elemType = "QUAD9" -> 9
      [] elemType = "TETRA4" ->
            IF matrixType = "rigi" THEN 1
            ELSE IF matrixType = "mass" THEN 4 ELSE Unbound
      [] elemType = "TETRA10" -> 4
      [] elemType = "HEXA8" ->
            IF matrixType \in {"rigi", "mass"} THEN 8 ELSE Unbound
      [] elemType = "HEXA20" ->
            IF matrixType \in {"rigi", "mass"} THEN 27 ELSE Unbound
      [] elemType = "PRISM6" ->
            IF matrixType \in {"rigi", "mass"} THEN 6 ELSE Unbound
      [] elemType = "PRISM15" ->
            IF matrixType \in {"rigi", "mass"} THEN 6 ELSE Unbound
      [] OTHER -> Unbound

\* variant: SEG3 takes for beam the 2 points SEG2 takes
PointCount_seg3(elemType, matrixType) ==
    CASE elemType = "SEG2" ->
            IF matrixType = "rigi" THEN 1
            ELSE IF matrixType \in {"mass", "beam"} THEN 2 ELSE Unbound
      [] elemType = "SEG3" ->
            IF matrixType = "rigi" THEN 1
            ELSE IF matrixType \in {"mass"} THEN 3
            ELSE IF matrixType = "beam" THEN 2 ELSE Unbound
      [] elemType = "SEG4" ->
            IF matrixType = "rigi" THEN 2
            ELSE IF matrixType = "mass" THEN 4
            ELSE IF matrixType = "beam" THEN 6 ELSE Unbound
      [] elemType = "TRI3" ->
            IF matrixType = "rigi" THEN 1
            ELSE IF matrixType = "mass" THEN 3 ELSE Unbound
      [] elemType = "TRI6" ->
            IF matrixType = "rigi" THEN 3
            ELSE IF matrixType = "mass" THEN 6 ELSE Unbound
      [] elemType = "TRI10" -> 6
      [] elemType = "QUAD4" -> 4
      [] elemType = "QUAD8" ->
            IF matrixType = "rigi" THEN 4
            ELSE IF matrixType = "mass" THEN 9 ELSE Unbound
      [] elemType = "QUAD9" -> 9
      [] elemType = "TETRA4" ->
            IF matrixType = "rigi" THEN 1
            ELSE IF matrixType = "mass" THEN 4 ELSE Unbound
      [] elemType = "TETRA10" -> 4
      [] elemType = "HEXA8" ->
            IF matrixType \in {"rigi", "mass"} THEN 8 ELSE Unbound
      [] elemType = "HEXA20" ->
            IF matrixType \in {"rigi", "mass"} THEN 8 ELSE Unbound
      [] elemType = "PRISM6" ->
            IF matrixType \in {"rigi", "mass"} THEN 6 ELSE Unbound
      [] elemType = "PRISM15" ->
            IF matrixType \in {"rigi", "mass"} THEN 6 ELSE Unbound
      [] OTHER -> Unbound

\* variant: TETRA10 takes the 5-point table
PointCount_tetra5(elemType, matrixType) ==
    CASE elemType = "SEG2" ->
            IF matrixType = "rigi" THEN 1
            ELSE IF matrixType \in {"mass", "beam"} THEN 2 ELSE Unbound
      [] elemType = "SEG3" ->
            IF matrixType = "rigi" THEN 1
            ELSE IF matrixType \in {"mass"} THEN 3
            ELSE IF matrixType = "beam" THEN 4 ELSE Unbound
      [] elemType = "SEG4" ->
            IF matrixType = "rigi" THEN 2
            ELSE IF matrixType = "mass" THEN 4
            ELSE IF matrixType = "beam" THEN 6 ELSE Unbound
      [] elemType = "TRI3" ->
            IF matrixType = "rigi" THEN 1
            ELSE IF matrixType = "mass" THEN 3 ELSE Unbound
      [] elemType = "TRI6" ->
            IF matrixType = "rigi" THEN 3
            ELSE IF matrixType = "mass" THEN 6 ELSE Unbound
      [] elemType = "TRI10" -> 6
      [] elemType = "QUAD4" -> 4
      [] elemType = "QUAD8" ->
            IF matrixType = "rigi" THEN 4
            ELSE IF matrixType = "mass" THEN 9 ELSE Unbound
      [] elemType = "QUAD9" -> 9
      [] elemType = "TETRA4" ->
            IF matrixType = "rigi" THEN 1
            ELSE IF matrixType = "mass" THEN 4 ELSE Unbound
      [] elemType = "TETRA10" -> 5
      [] elemType = "HEXA8" ->
            IF matrixType \in {"rigi", "mass"} THEN 8 ELSE Unbound
      [] elemType = "HEXA20" ->
            IF matrixType \in {"rigi", "mass"} THEN 8 ELSE Unbound
      [] elemType = "PRISM6" ->
            IF matrixType \in {"rigi", "mass"} THEN 6 ELSE Unbound
      [] elemType = "PRISM15" ->
            IF matrixType \in {"rigi", "mass"} THEN 6 ELSE Unbound
      [] OTHER -> Unbound

\* the nPg bound by the branch of elemType, if any
PointCount(elemType, matrixType) ==
    CASE elemType = "SEG2" ->
            IF matrixType = "rigi" THEN 1
            ELSE IF matrixType \in {"mass", "beam"} THEN 2 ELSE Unbound
      [] elemType = "SEG3" ->
            IF matrixType = "rigi" THEN 1
            ELSE IF matrixType \in {"mass"} THEN 3
            ELSE IF matrixType = "beam" THEN 4 ELSE Unbound
      [] elemType = "SEG4" ->
            IF matrixType = "rigi" THEN 2
            ELSE IF matrixType = "mass" THEN 4
            ELSE IF matrixType = "beam" THEN 6 ELSE Unbound
      [] elemType = "TRI3" ->
            IF matrixType = "rigi" THEN 1
            ELSE IF matrixType = "mass" THEN 3 ELSE Unbound
      [] elemType = "TRI6" ->
            IF matrixType = "rigi" THEN 3
            ELSE IF matrixType = "mass" THEN 6 ELSE Unbound
      [] elemType = "TRI10" -> 6
      [] elemType = "QUAD4" -> 4
      [] elemType = "QUAD8" ->
            IF matrixType = "rigi" THEN 4
            ELSE IF matrixType = "mass" THEN 9 ELSE Unbound
      [] elemType = "QUAD9" -> 9
      [] elemType = "TETRA4" ->
            IF matrixType = "rigi" THEN 1
            ELSE IF matrixType = "mass" THEN 4 ELSE Unbound
      [] elemType = "TETRA10" -> 4
      [] elemType = "HEXA8" ->
            IF matrixType \in {"rigi", "mass"} THEN 8 ELSE Unbound
      [] elemType = "HEXA20" ->
            IF matrixType \in {"rigi", "mass"} THEN 8 ELSE Unbound
      [] elemType = "PRISM6" ->
            IF matrixType \in {"rigi", "mass"} THEN 6 ELSE Unbound
      [] elemType = "PRISM15" ->
            IF matrixType \in {"rigi", "mass"} THEN 6 ELSE Unbound
      [] OTHER -> Unbound

\* the generator called in the branch of elemType
Generate(elemType, nPg) ==
    IF elemType \in SegTypes THEN leggauss(nPg)
    ELSE IF elemType \in TriTypes THEN _Triangle(nPg)
    ELSE IF elemType \in QuadTypes THEN _Quadrangle(nPg)
    ELSE IF elemType \in TetraTypes THEN _Tetrahedron(nPg)
    ELSE IF elemType \in HexaTypes THEN _Hexahedron(nPg)
    ELSE _Prism(nPg)

\* what _Gauss_factory returns, or the exception it raises
Rule(coord, weights) ==
    [ok |-> TRUE, err |-> "none", coord |-> coord, weights |-> weights]

Fail(kind) ==
    [ok |-> FALSE, err |-> kind, coord |-> NoArray, weights |-> NoArray]

\* variant: the arrays stored as np.asarray builds them, without reshape
Layout_noReshape(g, nPg, dim) ==
    Rule(T(asarray(g.comps)), asarray0(g.weights))

\* the tuple returned when both reshapes succeed
Pack(coord, weights) ==
    IF coord.ok /\ weights.ok THEN Rule(coord.arr, weights.arr)
    ELSE Fail("ValueError")

\* coord = np.asarray([...]).T.reshape((nPg, dim));
\* weights = np.asarray(weights).reshape(nPg)
Layout(g, nPg, dim) ==
    Pack(reshape(T(asarray(g.comps)), <<nPg, dim>>),
         reshape(asarray0(g.weights), <<nPg>>))

\* the generator's tuple laid out, or the generator's exception
FromGenerator(g, nPg, dim) ==
    IF g.ok THEN Layout(g, nPg, dim) ELSE Fail(g.err)

\* variant: nPg starts at 1 before the branches, so it is never unbound
FromCount_default(elemType, nPg) ==
    IF nPg = Unbound
    THEN FromGenerator(Generate(elemType, 1), 1, Dim(elemType))
    ELSE FromGenerator(Generate(elemType, nPg), nPg, Dim(elemType))

\* the branch of elemType once nPg is known: unbound locals raise
FromCount(elemType, nPg) ==
    IF nPg = Unbound THEN Fail("UnboundLocalError")
    ELSE FromGenerator(Generate(elemType, nPg), nPg, Dim(elemType))

_Gauss_factory(elemType, matrixType) ==
    IF matrixType \notin MatrixTypes THEN Fail("AssertionError")
    ELSE IF elemType \notin HandledTypes THEN Fail("Exception")
    ELSE FromCount(elemType, PointCount(elemType, matrixType))

(***************************************************************************)
(* State: objs, the Gauss objects built so far (their private arrays);    *)
(* log, the outcome of every constructor call as it was returned; gen, the *)
(* last direct generator call; read, the last nPg an accessor returned;    *)
(* writes, the number of stores a caller made into returned arrays         *)
(***************************************************************************)
MaxRequests == 3

MaxCalls == 1

MaxWrites == 1

MaxNPg == 27

\* element types passed by callers: the handled ones and one without a branch
ElemTypes == HandledTypes \cup {"SEG5"}

\* element types of the requests followed over several calls: one whose
\* branch sets nPg for every tag, one whose branch sets it for rigi and mass
\* only, one without a branch
ReqElemTypes == {"TRI10", "HEXA8", "SEG5"}

\* matrix types of those requests: one every branch handles, one only some
\* branches handle, one unknown
ReqMatrixArgs == {"rigi", "beam", "damp"}

\* positions a caller writes at: g.coord[0, 0] and g.weights[0]
WriteIndices == {1}

\* matrix types passed by callers: the known ones and one unknown string
MatrixArgs == MatrixTypes \cup {"damp"}

Families == {"TRI", "QUAD", "TETRA", "HEXA", "PRISM"}

\* values a caller stores into an array it got from an accessor
WriteValues == {Zero}

NoGen == [family |-> "none", nPg |-> 0, ret |-> Raise("none")]

\* nothing read yet
NoRead == 0

Init ==
    /\ objs = <<>>
    /\ log = <<>>
    /\ gen = NoGen
    /\ read = NoRead
    /\ writes = 0

\* the log entry of a request and the object it builds
Entry(elemType, matrixType, r) ==
    [elemType |-> elemType, matrixType |-> matrixType, ok |-> r.ok,
     err |-> r.err, coord |-> r.coord, weights |-> r.weights]

Object(elemType, matrixType, r) ==
    [elemType |-> elemType, matrixType |-> matrixType,
     coord |-> r.coord, weights |-> r.weights]

\* __init__ with the factory's outcome r
Store(elemType, matrixType, r) ==
    /\ log' = Append(log, Entry(elemType, matrixType, r))
    /\ objs' = IF r.ok THEN Append(objs, Object(elemType, matrixType, r))
               ELSE objs
    /\ UNCHANGED <<gen, read, writes>>

\* the outcome r with the arrays of object o in place of fresh ones
Shared(r, o) == [r EXCEPT !.coord = objs[o].coord, !.weights = objs[o].weights]

Reuse(r, hit) == IF hit = {} THEN r ELSE Shared(r, CHOOSE o \in hit : TRUE)

\* variant: a rule already built for the pair is reused, arrays shared
Gauss_init_cached(elemType, matrixType) ==
    Store(elemType, matrixType,
          Reuse(_Gauss_factory(elemType, matrixType),
                {o \in 1..Len(objs) : objs[o].elemType = elemType
                                       /\ objs[o].matrixType = matrixType}))

\* Gauss(elemType, matrixType): __init__ stores what the factory returns;
\* when the factory raises no object exists
Gauss_init(elemType, matrixType) ==
    Store(elemType, matrixType, _Gauss_factory(elemType, matrixType))

Request(elemType, matrixType) ==
    /\ Len(log) < MaxRequests
    /\ Gauss_init(elemType, matrixType)

\* the properties of object o: coord and weights return the stored arrays,
\* nPg the size of the stored weights (read holds the last nPg returned)
Accessors(o) ==
    /\ read' = size(objs[o].weights)
    /\ read' # read
    /\ UNCHANGED <<objs, log, gen, writes>>

\* g.coord.flat[i-1] = v: the property returns the stored array itself
WriteCoord(o, i, v) ==
    /\ writes < MaxWrites
    /\ i <= size(objs[o].coord)
    /\ objs' = [objs EXCEPT ![o].coord.data[i] = v]
    /\ writes' = writes + 1
    /\ UNCHANGED <<log, gen, read>>

\* g.weights[i-1] = v
WriteWeights(o, i, v) ==
    /\ writes < MaxWrites
    /\ i <= size(objs[o].weights)
    /\ objs' = [objs EXCEPT ![o].weights.data[i] = v]
    /\ writes' = writes + 1
    /\ UNCHANGED <<log, gen, read>>

Generator(family, nPg) ==
    CASE family = "TRI" -> _Triangle(nPg)
      [] family = "QUAD" -> _Quadrangle(nPg)
      [] family = "TETRA" -> _Tetrahedron(nPg)
      [] family = "HEXA" -> _Hexahedron(nPg)
      [] family = "PRISM" -> _Prism(nPg)

\* a direct call of a static generator
CallGenerator(family, nPg) ==
    /\ gen' = [family |-> family, nPg |-> nPg, ret |-> Generator(family, nPg)]
    /\ gen' # gen
    /\ UNCHANGED <<objs, log, read, writes>>

Next ==
    \/ \E e \in ReqElemTypes, m \in ReqMatrixArgs : Request(e, m)
    \/ \E o \in 1..Len(objs) : Accessors(o)
    \/ \E o \in 1..Len(objs), i \in WriteIndices, v \in WriteValues :
          WriteCoord(o, i, v)
    \/ \E o \in 1..Len(objs), i \in WriteIndices, v \in WriteValues :
          WriteWeights(o, i, v)

Spec == Init /\ [][Next]_vars

\* number of calls made so far in a behaviour of SpecGen
Calls == Len(log) + (IF gen = NoGen THEN 0 ELSE 1)

\* single calls: one request or one direct generator call
NextGen ==
    \/ \E e \in ElemTypes, m \in MatrixArgs :
          Calls < MaxCalls /\ Gauss_init(e, m)
    \/ \E f \in Families, n \in 0..MaxNPg :
          Calls < MaxCalls /\ CallGenerator(f, n)

SpecGen == Init /\ [][NextGen]_vars

(***************************************************************************)
(* Properties                                                              *)
(***************************************************************************)
\* 1e-12
Tol == D(0, 10000)

Near(a, b) == Leq(Abs(Sub(a, b)), Tol)

FamilyOf(elemType) ==
    CASE elemType \in {"SEG2", "SEG3", "SEG4"} -> "SEG"
      [] elemType \in {"TRI3", "TRI6", "TRI10"} -> "TRI"
      [] elemType \in {"QUAD4", "QUAD8", "QUAD9"} -> "QUAD"
      [] elemType \in {"TETRA4", "TETRA10"} -> "TETRA"
      [] elemType \in {"HEXA8", "HEXA20"} -> "HEXA"
      [] elemType \in {"PRISM6", "PRISM15"} -> "PRISM"
      [] OTHER -> "none"

ExpectedDim(family) ==
    CASE family = "SEG" -> 1
      [] family \in {"TRI", "QUAD"} -> 2
      [] OTHER -> 3

\* the i-th point of a generator's return value
GenPoint(ret, i) == [j \in 1..Len(ret.comps) |-> ret.comps[j].v[i]]

GenCount(ret) == Len(ret.weights.v)

\* C1: every constructed rule has as many coordinate rows as weights, that
\* number is nPg, and every row has dim entries (1 for segments, 2 for
\* triangles and quadrilaterals, 3 for the solids), 1-point rules included.
C1_Shape ==
    \A o \in 1..Len(objs) :
        LET c == objs[o].coord
            w == objs[o].weights
            nPg == size(w)
        IN  /\ Len(c.shape) = 2
            /\ Len(w.shape) = 1
            /\ Rows(c) = nPg
            /\ w.shape[1] = nPg
            /\ c.shape[2] = ExpectedDim(FamilyOf(objs[o].elemType))
            /\ size(c) = nPg * c.shape[2]

C1_Witness ==
    \E o \in 1..Len(objs) :
        /\ objs[o].elemType = "TETRA4"
        /\ objs[o].matrixType = "rigi"
        /\ objs[o].coord.shape = <<1, 3>>
        /\ size(objs[o].weights) = 1

Measure(family) ==
    CASE family = "SEG" -> Num(2)
      [] family = "TRI" -> D(50000000, 0)
      [] family = "QUAD" -> Num(4)
      [] family = "TETRA" -> D(16666666, 66666667)
      [] family = "HEXA" -> Num(8)

\* C2: for every rule the selector returns for a segment, triangle,
\* quadrilateral, tetrahedron or hexahedron element type, the weights sum to
\* the reference measure (2, 1/2, 4, 1/6, 8) within 1e-12.
C2_WeightSum ==
    \A i \in 1..Len(log) :
        (log[i].ok /\ FamilyOf(log[i].elemType)
                        \in {"SEG", "TRI", "QUAD", "TETRA", "HEXA"})
            => Near(Sum(log[i].weights.data),
                    Measure(FamilyOf(log[i].elemType)))

\* the prism rules of a state: those returned by the selector and the one
\* returned by a direct call of the prism generator
PrismWeights ==
    {log[i].weights.data : i \in {j \in 1..Len(log) :
        log[j].ok /\ FamilyOf(log[j].elemType) = "PRISM"}}
    \cup (IF gen.family = "PRISM" /\ gen.ret.ok
          THEN {gen.ret.weights.v} ELSE {})

\* C3 as stated: the weights of every prism rule (PRISM6, PRISM15, and the
\* 6- and 8-point tables of the generator) sum to 1/2.
C3_PrismSumHalf == \A w \in PrismWeights : Near(Sum(w), D(50000000, 0))

\* C3 amended: the weights of every prism rule sum to 1, the volume of the
\* reference prism (unit triangle x [-1, 1]), within 1e-12.
C3_PrismSumOne == \A w \in PrismWeights : Near(Sum(w), Num(1))

C3_Witness ==
    /\ gen.family = "PRISM"
    /\ gen.nPg = 8
    /\ gen.ret.ok
    /\ \E i \in 1..8 : IsNeg(gen.ret.weights.v[i])

One == Num(1)

InUnit(x) == Leq(Neg(One), x) /\ Leq(x, One)

NonNeg(x) == Leq(Zero, x)

InDomain(family, p) ==
    CASE family = "SEG" -> InUnit(p[1])
      [] family = "TRI" ->
            NonNeg(p[1]) /\ NonNeg(p[2]) /\ Leq(Add(p[1], p[2]), One)
      [] family = "QUAD" -> InUnit(p[1]) /\ InUnit(p[2])
      [] family = "TETRA" ->
            /\ NonNeg(p[1]) /\ NonNeg(p[2]) /\ NonNeg(p[3])
            /\ Leq(Add(Add(p[1], p[2]), p[3]), One)
      [] family = "HEXA" -> InUnit(p[1]) /\ InUnit(p[2]) /\ InUnit(p[3])
      [] family = "PRISM" ->
            /\ NonNeg(p[1]) /\ NonNeg(p[2]) /\ Leq(Add(p[1], p[2]), One)
            /\ InUnit(p[3])

\* C4: every point of every generated rule (every rule the selector
\* returns, every table a generator returns) lies inside or on the boundary
\* of the reference domain of its family.
C4_InDomain ==
    /\ \A i \in 1..Len(log) :
          log[i].ok =>
             \A r \in 1..Rows(log[i].coord) :
                InDomain(FamilyOf(log[i].elemType), Row(log[i].coord, r))
    /\ gen.ret.ok =>
          \A i \in 1..GenCount(gen.ret) :
             InDomain(gen.family, GenPoint(gen.ret, i))

C4_Witness ==
    /\ gen.family = "PRISM"
    /\ gen.nPg = 6
    /\ gen.ret.ok
    /\ \E i \in 1..6 :
          Add(GenPoint(gen.ret, i)[1], GenPoint(gen.ret, i)[2]) = One

NonSegTypes ==
    {"TRI3", "TRI6", "TRI10", "QUAD4", "QUAD8", "QUAD9", "TETRA4", "TETRA10",
     "HEXA8", "HEXA20", "PRISM6", "PRISM15"}

\* C5 as stated: every request with the beam tag on a non-segment element
\* type fails.
C5_BeamNeverReturns ==
    \A i \in 1..Len(log) :
        (log[i].matrixType = "beam" /\ log[i].elemType \in NonSegTypes)
            => ~log[i].ok

\* the element types whose branch sets the point count whatever the tag
AnyTagCount(elemType) ==
    CASE elemType = "TRI10" -> 6
      [] elemType = "QUAD4" -> 4
      [] elemType = "QUAD9" -> 9
      [] elemType = "TETRA10" -> 4
      [] OTHER -> 0

\* C5 amended: a beam request on TRI3, TRI6, QUAD8, TETRA4, HEXA8, HEXA20,
\* PRISM6 or PRISM15 fails and returns no rule; on TRI10, QUAD4, QUAD9 and
\* TETRA10, whose point count does not depend on the tag, it returns that
\* element type's 6-, 4-, 9- and 4-point rule.
C5_BeamByBranch ==
    \A i \in 1..Len(log) :
        (log[i].matrixType = "beam" /\ log[i].elemType \in NonSegTypes)
            => IF AnyTagCount(log[i].elemType) = 0
               THEN ~log[i].ok /\ log[i].coord = NoArray
                    /\ log[i].weights = NoArray
               ELSE log[i].ok
                    /\ size(log[i].weights) = AnyTagCount(log[i].elemType)

C5_Witness ==
    \E i \in 1..Len(log) :
        /\ log[i].matrixType = "beam"
        /\ log[i].elemType = "HEXA8"
        /\ ~log[i].ok

\* C6: all failing requests fail with one and the same error kind.
C6_SingleErrorKind ==
    \A i, j \in 1..Len(log) :
        (~log[i].ok /\ ~log[j].ok) => log[i].err = log[j].err

Registered(family) ==
    CASE family = "TRI" -> {1, 3, 6, 7, 12}
      [] family = "QUAD" -> {4, 9}
      [] family = "TETRA" -> {1, 4, 5, 15}
      [] family = "HEXA" -> {8, 27}
      [] family = "PRISM" -> {6, 8}
      [] OTHER -> {}

\* C7: a generator called with a point count outside its registered set
\* fails with an error and returns no coordinates or weights.
C7_UnregisteredFails ==
    (gen.family \in Families /\ gen.nPg \notin Registered(gen.family))
        => /\ ~gen.ret.ok
           /\ gen.ret.err # "none"
           /\ gen.ret.comps = <<>>
           /\ gen.ret.weights.v = <<>>

C7_Witness ==
    /\ gen.family = "PRISM"
    /\ gen.nPg = 10
    /\ ~gen.ret.ok

Built == SelectSeq(log, LAMBDA e : e.ok)

\* C9: after construction no operation of the public interface changes the
\* stored coordinates, weights or point count of a rule.
C9_Immutable ==
    \A o \in 1..Len(objs) :
        /\ objs[o].coord = Built[o].coord
        /\ objs[o].weights = Built[o].weights
        /\ size(objs[o].weights) = size(Built[o].weights)

OnePoint(e, p, w) ==
    /\ e.ok
    /\ size(e.weights) = 1
    /\ e.coord.data = p
    /\ e.weights.data = <<w>>

Third == D(33333333, 33333333)

Quarter == D(25000000, 0)

\* C10 as stated: a rigi request on any triangle element type returns one
\* point (1/3, 1/3) of weight 1/2, on any tetrahedron element type one
\* point (1/4, 1/4, 1/4) of weight 1/6.
C10_RigiOnePoint ==
    \A i \in 1..Len(log) :
        log[i].matrixType = "rigi" =>
            /\ FamilyOf(log[i].elemType) = "TRI"
                  => OnePoint(log[i], <<Third, Third>>, D(50000000, 0))
            /\ FamilyOf(log[i].elemType) = "TETRA"
                  => OnePoint(log[i], <<Quarter, Quarter, Quarter>>,
                              D(16666666, 66666667))

\* C10 amended: a rigi request on TRI3 returns one point (1/3, 1/3) of
\* weight 1/2 and on TETRA4 one point (1/4, 1/4, 1/4) of weight 1/6; on
\* TRI6, TRI10 and TETRA10 it returns 3, 6 and 4 points.
C10_RigiLinear ==
    \A i \in 1..Len(log) :
        log[i].matrixType = "rigi" =>
            /\ log[i].elemType = "TRI3"
                  => OnePoint(log[i], <<Third, Third>>, D(50000000, 0))
            /\ log[i].elemType = "TETRA4"
                  => OnePoint(log[i], <<Quarter, Quarter, Quarter>>,
                              D(16666666, 66666667))
            /\ log[i].elemType = "TRI6" => log[i].ok /\ size(log[i].weights) = 3
            /\ log[i].elemType = "TRI10" => log[i].ok /\ size(log[i].weights) = 6
            /\ log[i].elemType = "TETRA10"
                  => log[i].ok /\ size(log[i].weights) = 4

C10_Witness ==
    \E i \in 1..Len(log) :
        /\ log[i].matrixType = "rigi"
        /\ log[i].elemType = "TRI3"
        /\ log[i].ok
        /\ Rows(log[i].coord) = 1

\* the point count of the hexahedron and prism branches
FixedCount(elemType) ==
    CASE elemType \in {"HEXA8", "HEXA20"} -> 8
      [] elemType \in {"PRISM6", "PRISM15"} -> 6
      [] OTHER -> 0

HasCount(e, n) == e.ok /\ size(e.weights) = n /\ Rows(e.coord) = n

\* C11 as stated: a request on HEXA8, HEXA20, PRISM6 or PRISM15 returns a
\* rule of 8 (hexahedra) or 6 (prisms) points for every tag, rigi, mass and
\* beam.
C11_FixedAnyTag ==
    \A i \in 1..Len(log) :
        (FixedCount(log[i].elemType) # 0
            /\ log[i].matrixType \in {"rigi", "mass", "beam"})
            => HasCount(log[i], FixedCount(log[i].elemType))

\* C11 amended: a rigi or mass request on HEXA8 or HEXA20 returns 8 points,
\* on PRISM6 or PRISM15 6 points; a beam request on these element types
\* returns no rule.
C11_FixedRigiMass ==
    \A i \in 1..Len(log) :
        FixedCount(log[i].elemType) # 0 =>
            /\ log[i].matrixType \in {"rigi", "mass"}
                  => HasCount(log[i], FixedCount(log[i].elemType))
            /\ log[i].matrixType = "beam" => ~log[i].ok

C11_Witness ==
    \E i \in 1..Len(log) :
        /\ log[i].elemType = "HEXA20"
        /\ log[i].matrixType = "mass"
        /\ log[i].ok
        /\ Rows(log[i].coord) = 8

\* the entry e holds the rule r, point for point and weight for weight
SameRule(e, r) ==
    /\ e.ok
    /\ r.ok
    /\ e.coord = r.coord
    /\ e.weights = r.weights

\* C12: a rigi or mass request on HEXA20 returns the 8-point rule the HEXA8
\* request with the same tag returns (same points, same order, same
\* weights), and no request returns the 27-point table.
C12_Hexa20AsHexa8 ==
    \A i \in 1..Len(log) :
        /\ (log[i].elemType = "HEXA20"
               /\ log[i].matrixType \in {"rigi", "mass"})
              => /\ size(log[i].weights) = 8
                 /\ SameRule(log[i],
                             _Gauss_factory("HEXA8", log[i].matrixType))
        /\ log[i].ok => size(log[i].weights) # 27

C12_Witness ==
    \E i \in 1..Len(log) :
        /\ log[i].elemType = "HEXA20"
        /\ log[i].matrixType = "rigi"
        /\ log[i].ok
        /\ log[i].weights.data = Rep(Num(1), 8)

\* both rules exist and lo has at most as many points as hi
Ordered(lo, hi) == lo.ok /\ hi.ok /\ size(lo.weights) <= size(hi.weights)

\* C13: for every element type with a branch the rigi rule has at most as
\* many points as the mass rule, and a beam rule, where one is returned, at
\* least as many as the mass rule.
C13_TagsOrdered ==
    \A i \in 1..Len(log) :
        FamilyOf(log[i].elemType) # "none" =>
            /\ log[i].matrixType = "rigi"
                  => Ordered(log[i], _Gauss_factory(log[i].elemType, "mass"))
            /\ log[i].matrixType = "mass"
                  => Ordered(_Gauss_factory(log[i].elemType, "rigi"), log[i])
            /\ (log[i].matrixType = "beam" /\ log[i].ok)
                  => Ordered(_Gauss_factory(log[i].elemType, "mass"), log[i])

C13_Witness ==
    \E i \in 1..Len(log) :
        /\ log[i].elemType = "SEG3"
        /\ log[i].matrixType = "beam"
        /\ log[i].ok
        /\ size(log[i].weights) = 4
        /\ size(_Gauss_factory("SEG3", "mass").weights) = 3

\* the values a table lists on axis j
AxisNodes(ret, j) == {ret.comps[j].v[i] : i \in 1..GenCount(ret)}

\* the weight of node x in the 1D rule of n nodes: 1, 1 for {-a, a} and
\* 5/9, 8/9, 5/9 for {-a, 0, a}
Weight1D(n, x) ==
    IF n = 2 THEN Num(1) ELSE IF x = Zero THEN Rat(8, 9) ELSE Rat(5, 9)

ProductWeight(n, p) ==
    IF Len(p) = 2 THEN Mul(Weight1D(n, p[1]), Weight1D(n, p[2]))
    ELSE Mul(Mul(Weight1D(n, p[1]), Weight1D(n, p[2])), Weight1D(n, p[3]))

\* the 1D nodes: {-a, a} or {-a, 0, a} for some a > 0
Symmetric(N, n) ==
    \E a \in N :
        /\ ~IsNeg(a)
        /\ a # Zero
        /\ N = (IF n = 2 THEN {Neg(a), a} ELSE {Neg(a), Zero, a})

\* ret is the product over dim axes of a 1D rule of n nodes
IsTensor(ret, dim, n) ==
    /\ ret.ok
    /\ Len(ret.comps) = dim
    /\ GenCount(ret) = n ^ dim
    /\ Symmetric(AxisNodes(ret, 1), n)
    /\ {GenPoint(ret, i) : i \in 1..GenCount(ret)}
          = [1..dim -> AxisNodes(ret, 1)]
    /\ \A i \in 1..GenCount(ret) :
          Near(ret.weights.v[i], ProductWeight(n, GenPoint(ret, i)))

\* C14: the 4- and 9-point quadrilateral tables and the 8- and 27-point
\* hexahedron tables list every combination of the 1D nodes ({-a, a}, or
\* {-a, 0, a}) over their 2 or 3 axes exactly once, and the weight of each
\* point is the product of the 1D weights (1, or 5/9, 8/9, 5/9) of its
\* coordinates, within 1e-12.
C14_TensorProducts ==
    /\ (gen.family = "QUAD" /\ gen.nPg = 4) => IsTensor(gen.ret, 2, 2)
    /\ (gen.family = "QUAD" /\ gen.nPg = 9) => IsTensor(gen.ret, 2, 3)
    /\ (gen.family = "HEXA" /\ gen.nPg = 8) => IsTensor(gen.ret, 3, 2)
    /\ (gen.family = "HEXA" /\ gen.nPg = 27) => IsTensor(gen.ret, 3, 3)

C14_Witness ==
    /\ gen.family = "HEXA"
    /\ gen.nPg = 27
    /\ gen.ret.ok
    /\ GenPoint(gen.ret, 14) = <<Zero, Zero, Zero>>
    /\ Near(gen.ret.weights.v[14], Rat(512, 729))

Sixth == Rat(1, 6)

Half == Rat(1, 2)

\* the four points of the 5-point table besides the centroid
OffCentre ==
    {<<Sixth, Sixth, Sixth>>, <<Half, Sixth, Sixth>>, <<Sixth, Half, Sixth>>,
     <<Sixth, Sixth, Half>>}

\* C15: the 5-point tetrahedron table has exactly one negative weight,
\* -2/15, at the index of the centroid (1/4, 1/4, 1/4); the other four
\* weights are 3/40, at the point (1/6, 1/6, 1/6) and the three points with
\* one coordinate 1/2 and two 1/6; the five weights sum to 1/6.
C15_Tetra5 ==
    (gen.family = "TETRA" /\ gen.nPg = 5) =>
        LET w == gen.ret.weights.v
        IN  /\ gen.ret.ok
            /\ Len(w) = 5
            /\ Cardinality({i \in 1..5 : IsNeg(w[i])}) = 1
            /\ \A i \in 1..5 :
                  IF IsNeg(w[i])
                  THEN /\ w[i] = Neg(Rat(2, 15))
                       /\ GenPoint(gen.ret, i) = <<Quarter, Quarter, Quarter>>
                  ELSE /\ w[i] = Rat(3, 40)
                       /\ GenPoint(gen.ret, i) \in OffCentre
            /\ {GenPoint(gen.ret, i) : i \in 2..5} = OffCentre
            /\ Sum(w) = Sixth

C15_Witness ==
    /\ gen.family = "TETRA"
    /\ gen.nPg = 5
    /\ gen.ret.ok
    /\ IsNeg(gen.ret.weights.v[1])
    /\ GenPoint(gen.ret, 1) = <<Quarter, Quarter, Quarter>>

\* 1/sqrt(3)
InvSqrt3 == D(57735026, 91896258)

\* the table of X, Y, Z and weights that _Prism(nPg) holds
Tabulated(nPg) == IF nPg = 6 THEN Prism6 ELSE Prism8

\* ret lists the axes of table t as x = Y, y = Z, z = X, the weights at the
\* indices of the table; every point has its thickness value third
Permuted(ret, t) ==
    /\ ret.ok
    /\ Len(ret.comps) = 3
    /\ ret.comps[1].v = t.Y
    /\ ret.comps[2].v = t.Z
    /\ ret.comps[3].v = t.X
    /\ ret.weights.v = t.weights
    /\ \A i \in 1..GenCount(ret) :
          /\ GenPoint(ret, i) = <<t.Y[i], t.Z[i], t.X[i]>>
          /\ Near(Abs(GenPoint(ret, i)[3]), InvSqrt3)
          /\ NonNeg(GenPoint(ret, i)[1])
          /\ NonNeg(GenPoint(ret, i)[2])
          /\ Leq(Add(GenPoint(ret, i)[1], GenPoint(ret, i)[2]), One)

\* C16: for the 6- and the 8-point table the prism generator returns
\* x = tabulated Y, y = tabulated Z, z = tabulated X: the third coordinate of
\* every returned point is +-1/sqrt(3), the first two are the in-plane
\* triangle coordinates, and weight i belongs to returned point i.
\* The rows of a rule the selector returns for a prism are the points of the
\* 6-point table in that layout.
C16_AxesPermuted ==
    /\ (gen.family = "PRISM" /\ gen.nPg \in {6, 8})
          => Permuted(gen.ret, Tabulated(gen.nPg))
    /\ \A i \in 1..Len(log) :
          (log[i].ok /\ FamilyOf(log[i].elemType) = "PRISM")
              => /\ log[i].weights.data = Prism6.weights
                 /\ \A r \in 1..Rows(log[i].coord) :
                       Row(log[i].coord, r)
                           = <<Prism6.Y[r], Prism6.Z[r], Prism6.X[r]>>

C16_Witness ==
    /\ gen.family = "PRISM"
    /\ gen.nPg = 8
    /\ gen.ret.ok
    /\ GenPoint(gen.ret, 2) = <<Rat(6, 10), Rat(2, 10), Neg(D(57735026, 91896260))>>

InPlane(ret) ==
    {<<GenPoint(ret, i)[1], GenPoint(ret, i)[2]>> : i \in 1..GenCount(ret)}

Thickness(ret) == {GenPoint(ret, i)[3] : i \in 1..GenCount(ret)}

\* ret pairs each of nTri in-plane points with each of nLine thickness
\* values, once
IsProduct(ret, nTri, nLine) ==
    /\ ret.ok
    /\ Cardinality(InPlane(ret)) = nTri
    /\ Cardinality(Thickness(ret)) = nLine
    /\ GenCount(ret) = nTri * nLine
    /\ {GenPoint(ret, i) : i \in 1..GenCount(ret)}
          = {<<q[1], q[2], z>> : q \in InPlane(ret), z \in Thickness(ret)}

\* C17 as stated: the 6-point prism table is a 2-point in-plane rule times
\* a 3-point through-thickness rule, the 8-point table a 4-point in-plane
\* rule times a 2-point through-thickness rule.
C17_Prism2x3 ==
    /\ (gen.family = "PRISM" /\ gen.nPg = 6) => IsProduct(gen.ret, 2, 3)
    /\ (gen.family = "PRISM" /\ gen.nPg = 8) => IsProduct(gen.ret, 4, 2)

\* C17 amended: the 6-point prism table is a 3-point in-plane rule times a
\* 2-point through-thickness rule, the 8-point table a 4-point in-plane
\* rule times a 2-point through-thickness rule.
C17_Prism3x2 ==
    /\ (gen.family = "PRISM" /\ gen.nPg = 6) => IsProduct(gen.ret, 3, 2)
    /\ (gen.family = "PRISM" /\ gen.nPg = 8) => IsProduct(gen.ret, 4, 2)

C17_Witness ==
    /\ gen.family = "PRISM"
    /\ gen.nPg = 6
    /\ gen.ret.ok
    /\ InPlane(gen.ret) = {<<Half, Half>>, <<Zero, Half>>, <<Half, Zero>>}
    /\ Cardinality(Thickness(gen.ret)) = 2

RECURSIVE Pow(_, _)
Pow(x, k) == IF k = 0 THEN One ELSE Mul(x, Pow(x, k - 1))

\* the monomial of exponents e at point p
Monomial(p, e) ==
    IF Len(p) = 2 THEN Mul(Pow(p[1], e[1]), Pow(p[2], e[2]))
    ELSE Mul(Mul(Pow(p[1], e[1]), Pow(p[2], e[2])), Pow(p[3], e[3]))

\* the weighted sum of the monomial over the points of a table
Quadrature(ret, e) ==
    Sum([i \in 1..GenCount(ret) |->
            Mul(ret.weights.v[i], Monomial(GenPoint(ret, i), e))])

RECURSIVE Fact(_)
Fact(n) == IF n = 0 THEN 1 ELSE n * Fact(n - 1)

Even(e) == \A j \in DOMAIN e : e[j] % 2 = 0

\* the integral of the monomial over the unit triangle, the unit
\* tetrahedron and the cube [-1, 1]^3
Integral(family, e) ==
    CASE family = "TRI" ->
            Rat(Fact(e[1]) * Fact(e[2]), Fact(e[1] + e[2] + 2))
      [] family = "TETRA" ->
            Rat(Fact(e[1]) * Fact(e[2]) * Fact(e[3]),
                Fact(e[1] + e[2] + e[3] + 3))
      [] family = "HEXA" ->
            IF Even(e) THEN Rat(8, (e[1] + 1) * (e[2] + 1) * (e[3] + 1))
            ELSE Zero

\* the exactness order the docstrings give each table
Order(family, nPg) ==
    CASE family = "TRI" ->
            (CASE nPg = 1 -> 1 [] nPg = 3 -> 2 [] nPg = 6 -> 3
               [] nPg = 7 -> 4 [] nPg = 12 -> 5)
      [] family = "TETRA" ->
            (CASE nPg = 1 -> 1 [] nPg = 4 -> 2 [] nPg = 5 -> 3
               [] nPg = 15 -> 5)
      [] family = "HEXA" -> (CASE nPg = 8 -> 3 [] nPg = 27 -> 5)

TotalDegree(e) == IF Len(e) = 2 THEN e[1] + e[2] ELSE e[1] + e[2] + e[3]

\* the exponents of the monomials in dim variables of total degree <= deg
Exponents(dim, deg) == {e \in [1..dim -> 0..deg] : TotalDegree(e) <= deg}

\* C18: for every table of the triangle, tetrahedron and hexahedron
\* generators and every monomial of total degree at most the order its
\* docstring gives (triangle 1, 2, 3, 4, 5 for 1, 3, 6, 7, 12 points,
\* tetrahedron 1, 2, 3, 5 for 1, 4, 5, 15, hexahedron 3, 5 for 8, 27), the
\* weighted sum of the monomial over the points equals its integral over
\* the reference element within 1e-12.
C18_Exactness ==
    (gen.family \in {"TRI", "TETRA", "HEXA"} /\ gen.ret.ok) =>
        \A e \in Exponents(Len(gen.ret.comps), Order(gen.family, gen.nPg)) :
            Near(Quadrature(gen.ret, e), Integral(gen.family, e))

\* the point counts a rule of each family may have
SelectedCounts(family) ==
    CASE family = "SEG" -> {1, 2, 3, 4, 6}
      [] family = "TRI" -> {1, 3, 6}
      [] family = "QUAD" -> {4, 9}
      [] family = "TETRA" -> {1, 4}
      [] family = "HEXA" -> {8}
      [] family = "PRISM" -> {6}
      [] OTHER -> {}

\* the weights of the tables no request is to return
Excluded ==
    {Tetrahedron5.weights.v, Prism8.weights, Triangle7.weights.v,
     Triangle12.weights.v, Tetrahedron15.weights.v, Hexahedron27.weights.v}

\* C19: every rule a request returns has strictly positive weights only and
\* a point count in {1,2,3,4,6} (segments), {1,3,6} (triangles), {4,9}
\* (quadrilaterals), {1,4} (tetrahedra), {8} (hexahedra), {6} (prisms); no
\* request returns the 5-point tetrahedron, 8-point prism, 7- or 12-point
\* triangle, 15-point tetrahedron or 27-point hexahedron table.
C19_PositiveSelected ==
    \A i \in 1..Len(log) :
        log[i].ok =>
            /\ \A k \in 1..size(log[i].weights) :
                  ~Leq(log[i].weights.data[k], Zero)
            /\ size(log[i].weights)
                  \in SelectedCounts(FamilyOf(log[i].elemType))
            /\ Rows(log[i].coord) = size(log[i].weights)
            /\ log[i].weights.data \notin Excluded

C19_Witness ==
    \E i \in 1..Len(log) :
        /\ log[i].elemType = "TETRA10"
        /\ log[i].matrixType = "mass"
        /\ log[i].ok
        /\ log[i].weights.data = Rep(Rat(1, 24), 4)
====
